---- MODULE Spec2Model ----
(***************************************************************************)
(* near-bindgen-core, code_generator/attr_sig_info.rs                      *)
(*                                                                         *)
(* The five fragment generators of AttrSigInfo (input_struct,              *)
(* decomposition_pattern, arg_list, callback_deserialization,              *)
(* callback_vec_deserialization) and the run-time behaviour of the code    *)
(* the two callback generators emit, executed against a host table of      *)
(* promise results.                                                        *)
(*                                                                         *)
(* A TokenStream2 is a sequence of tokens.  The fragments of the first     *)
(* three generators are sequences of strings, one string per token the     *)
(* quote! template emits (an attribute, a type and a path are one token    *)
(* each).  The fragments of the two callback generators are sequences of   *)
(* blocks, one per quote! block of the fold, holding the interpolated      *)
(* values (#idx, #mutability, #ident, #ty, #invocation) of the block.      *)
(***************************************************************************)
EXTENDS Naturals, Sequences, FiniteSets

VARIABLES
    sig,                        \* the AttrSigInfo (self): args, input_serializer
    input_struct_out,           \* outcome of the last input_struct() call
    decomposition_pattern_out,  \* outcome of the last decomposition_pattern() call
    arg_list_out,               \* outcome of the last arg_list() call
    callback_out,               \* outcome of the last callback_deserialization() call
    callback_vec_out,           \* outcome of the last callback_vec_deserialization() call
    results,                    \* the host's promise results of the contract call
    pc,                         \* position of the generated callback code
    prog,                       \* blocks of generated code not yet completed
    env,                        \* the let bindings made so far, in order
    fetched,                    \* every promise_result(i) call made so far, in order
    counted,                    \* number of promise_results_count() calls made so far
    data,                       \* the local `data` of the block being executed
    range,                      \* the (from..to) range of the running vector block
    acc,                        \* the values the running map has produced so far
    panic                       \* the panic that ended the call, if any

vars == <<sig, input_struct_out, decomposition_pattern_out, arg_list_out,
          callback_out, callback_vec_out, results, pc, prog, env, fetched,
          counted, data, range, acc, panic>>

genVars == <<input_struct_out, decomposition_pattern_out, arg_list_out,
             callback_out, callback_vec_out>>

runVars == <<results, pc, prog, env, fetched, counted, data, range, acc, panic>>

(***************************************************************************)
(* Bounds                                                                  *)
(***************************************************************************)
\* Longest argument list of a generated signature.
MaxArgs == 2

\* Longest argument list of a signature whose callback code is executed.
MaxRunArgs == 3

\* Largest number of promise results the host holds.
MaxResults == 3

(***************************************************************************)
(* The signature model: ArgInfo and AttrSigInfo                            *)
(***************************************************************************)
SerializerType == {"JSON", "Borsh"}

BindgenArgType == {"Regular", "CallbackArg", "CallbackArgVec"}

\* reference is the `&` of the argument's type and mutability the `mut` that
\* follows it: value is (none, none), borrowed (&, none), mutably borrowed
\* (&, mut).
ReferenceForms ==
    { [reference |-> FALSE, mutability |-> FALSE],
      [reference |-> TRUE,  mutability |-> FALSE],
      [reference |-> TRUE,  mutability |-> TRUE] }

\* Identifiers are unique in a signature: the argument at position p is
\* named IdentAt(p) and has the type TypeAt(p).
IdentAt(p) == <<"a", "b", "c", "d", "e", "f">>[p]

TypeAt(p) == <<"u64", "String", "Vec<u8>", "[u64; 10]", "(u64, String)", "bool">>[p]

ArgInfo(p, form, bty, ser) ==
    [ ident         |-> IdentAt(p),
      ty            |-> TypeAt(p),
      reference     |-> form.reference,
      mutability    |-> form.mutability,
      bindgen_ty    |-> bty,
      serializer_ty |-> ser ]

\* The shapes an argument can have: every reference form, binding kind and
\* serializer.
ArgShapes ==
    { [form |-> f, bty |-> b, ser |-> s] :
        f \in ReferenceForms, b \in BindgenArgType, s \in SerializerType }

\* The argument lists of length n whose arguments have the given shapes.
RECURSIVE ArgLists(_, _)
ArgLists(n, shapes) ==
    IF n = 0
    THEN { <<>> }
    ELSE { Append(s, ArgInfo(n, x.form, x.bty, x.ser)) :
             s \in ArgLists(n - 1, shapes), x \in shapes }

AttrSigInfo(maxArgs, shapes) ==
    { [args |-> a, input_serializer |-> s] :
        a \in UNION { ArgLists(n, shapes) : n \in 0..maxArgs }, s \in SerializerType }

\* The signatures the specification names as examples and scenarios.
Value == [reference |-> FALSE, mutability |-> FALSE]

\* [Regular a, CallbackScalar b, Regular c, CallbackScalar d]
ExampleInterleaved ==
    [ args |-> << ArgInfo(1, Value, "Regular", "JSON"),
                  ArgInfo(2, Value, "CallbackArg", "JSON"),
                  ArgInfo(3, Value, "Regular", "JSON"),
                  ArgInfo(4, Value, "CallbackArg", "Borsh") >>,
      input_serializer |-> "JSON" ]

\* foo(a: Integer, b: Text, c: CallbackScalar<Bytes, Binary>)
ExampleFoo ==
    [ args |-> << ArgInfo(1, Value, "Regular", "JSON"),
                  ArgInfo(2, Value, "Regular", "JSON"),
                  ArgInfo(3, Value, "CallbackArg", "Borsh") >>,
      input_serializer |-> "JSON" ]

\* A signature that mixes all three kinds, and one with two vector
\* arguments after a scalar one (the configurations of the design note on
\* the vector deserializer).
ExampleMixed ==
    [ args |-> << ArgInfo(1, [reference |-> TRUE, mutability |-> TRUE], "Regular", "JSON"),
                  ArgInfo(2, Value, "CallbackArg", "Borsh"),
                  ArgInfo(3, [reference |-> TRUE, mutability |-> FALSE], "CallbackArgVec", "JSON"),
                  ArgInfo(4, Value, "Regular", "Borsh") >>,
      input_serializer |-> "Borsh" ]

ExampleTwoVectors ==
    [ args |-> << ArgInfo(1, Value, "CallbackArg", "JSON"),
                  ArgInfo(2, Value, "CallbackArgVec", "JSON"),
                  ArgInfo(3, [reference |-> TRUE, mutability |-> TRUE], "CallbackArgVec", "JSON") >>,
      input_serializer |-> "JSON" ]

ExampleSignatures == { ExampleInterleaved, ExampleFoo, ExampleMixed, ExampleTwoVectors }

(***************************************************************************)
(* Token streams                                                           *)
(***************************************************************************)
\* Option<Token![&]> and Option<Token![mut]> interpolate to the token or to
\* nothing.
RefToken(reference) == IF reference THEN <<"&">> ELSE <<>>

MutToken(mutability) == IF mutability THEN <<"mut">> ELSE <<>>

\* TokenStream2::extend over a loop: the concatenation of the streams, in
\* order.
RECURSIVE Extend(_)
Extend(streams) ==
    IF streams = <<>> THEN <<>> ELSE Head(streams) \o Extend(Tail(streams))

\* What a call of a generator gives: nothing yet, the fragment it returned,
\* or the panic message of a failed assert!.
NotCalled == [status |-> "not_called", tokens |-> <<>>, message |-> ""]

Returned(tokens) == [status |-> "returned", tokens |-> tokens, message |-> ""]

Panicked(message) == [status |-> "panicked", tokens |-> <<>>, message |-> message]

(***************************************************************************)
(* The generators                                                          *)
(***************************************************************************)
IsRegular(arg) == arg.bindgen_ty = "Regular"

IsCallbackArg(arg) == arg.bindgen_ty = "CallbackArg"

IsCallbackArgVec(arg) == arg.bindgen_ty = "CallbackArgVec"

\* self.input_args(): the arguments that are neither callback kind.
input_args(self) == SelectSeq(self.args, IsRegular)

DeriveAttribute(serializer) ==
    IF serializer = "JSON"
    THEN "#[derive(serde::Deserialize)]"
    ELSE "#[derive(borsh::BorshDeserialize)]"

InputField(arg) == <<arg.ident, ":", arg.ty, ",">>

\* Without the assert!: an empty struct for no input args.
input_struct_NoAssert(self) ==
    LET args == input_args(self) IN
    Returned(<<DeriveAttribute(self.input_serializer), "struct", "Input", "{">>
             \o Extend([ k \in DOMAIN args |-> InputField(args[k]) ])
             \o <<"}">>)

input_struct(self) ==
    LET args == input_args(self) IN
    IF args = <<>>
    THEN Panicked("Can only generate input struct for when input args are specified")
    ELSE Returned(<<DeriveAttribute(self.input_serializer), "struct", "Input", "{">>
                  \o Extend([ k \in DOMAIN args |-> InputField(args[k]) ])
                  \o <<"}">>)

\* The template without #mutability.
PatternField_NoMut(arg) == <<arg.ident, ",">>

PatternField(arg) == MutToken(arg.mutability) \o <<arg.ident, ",">>

decomposition_pattern(self) ==
    LET args == input_args(self) IN
    IF args = <<>>
    THEN Panicked("Can only generate decomposition pattern for when input args are specified.")
    ELSE Returned(<<"Input", "{">>
                  \o Extend([ k \in DOMAIN args |-> PatternField(args[k]) ])
                  \o <<"}">>)

\* The template without #mutability.
CallArg_NoMut(arg) == RefToken(arg.reference) \o <<arg.ident, ",">>

CallArg(arg) == RefToken(arg.reference) \o MutToken(arg.mutability) \o <<arg.ident, ",">>

\* Iterates input_args() instead of every argument.
arg_list_InputArgsOnly(self) ==
    LET args == input_args(self) IN
    Returned(Extend([ k \in DOMAIN args |-> CallArg(args[k]) ]))

arg_list(self) ==
    Returned(Extend([ k \in DOMAIN self.args |-> CallArg(self.args[k]) ]))

\* #invocation: the decode call the argument's own serializer_ty selects.
Invocation(serializer_ty) ==
    IF serializer_ty = "JSON"
    THEN "serde_json::from_slice"
    ELSE "borsh::Deserialize::try_from_slice"

\* Both match arms give .expect() the same message.
ExpectMessage == "Failed to deserialize callback using JSON"

NotSuccessfulMessage == "Callback computation {} was not successful"

\* Iterator::enumerate: each element with its 0-based position.
Enumerate(s) == [ i \in 1..Len(s) |-> [idx |-> i - 1, arg |-> s[i]] ]

\* The block the fold emits for one #[callback] argument:
\*   let data: Vec<u8> = match promise_result(#idx) {
\*       Successful(x) => x, _ => panic!("...{}...", #idx) };
\*   let #mutability #ident: #ty = #invocation;
ScalarBlock(idx, arg) ==
    [ block      |-> "scalar",
      fetch      |-> idx,
      named      |-> idx,
      mutability |-> arg.mutability,
      ident      |-> arg.ident,
      ty         |-> arg.ty,
      invocation |-> Invocation(arg.serializer_ty),
      expect     |-> ExpectMessage ]

\* enumerate() before filter(): the index is the position in the full list.
callback_deserialization_ByPosition(self) ==
    LET es == SelectSeq(Enumerate(self.args), LAMBDA e : IsCallbackArg(e.arg))
    IN Returned([ k \in DOMAIN es |-> ScalarBlock(es[k].idx, es[k].arg) ])

\* The serializer of the input struct in place of the argument's own.
callback_deserialization_InputSerializer(self) ==
    LET es == Enumerate(SelectSeq(self.args, IsCallbackArg))
    IN Returned([ k \in DOMAIN es |->
                    ScalarBlock(es[k].idx,
                                [es[k].arg EXCEPT !.serializer_ty = self.input_serializer]) ])

\* filter, enumerate, fold: the blocks in the order of the filtered
\* arguments (#acc first, then the block of the argument).
callback_deserialization(self) ==
    LET es == Enumerate(SelectSeq(self.args, IsCallbackArg))
    IN Returned([ k \in DOMAIN es |-> ScalarBlock(es[k].idx, es[k].arg) ])

\* The range starts at 1.
VecBlock_FromOne(arg) ==
    [ block      |-> "vec",
      from       |-> 1,
      mutability |-> arg.mutability,
      ident      |-> arg.ident,
      ty         |-> arg.ty,
      invocation |-> Invocation(arg.serializer_ty),
      expect     |-> ExpectMessage ]

\* The block the fold emits for one #[callback_vec] argument:
\*   let #mutability #ident: #ty = (0..promise_results_count())
\*       .map(|i| { let data = match promise_result(i) {
\*           Successful(x) => x, _ => panic!("...{}...", i) };
\*           #invocation }).collect();
\* from is the literal lower end of the range; the upper end is the call of
\* promise_results_count(), evaluated when the block runs.
VecBlock(arg) ==
    [ block      |-> "vec",
      from       |-> 0,
      mutability |-> arg.mutability,
      ident      |-> arg.ident,
      ty         |-> arg.ty,
      invocation |-> Invocation(arg.serializer_ty),
      expect     |-> ExpectMessage ]

\* The filter also lets #[callback] arguments through.
callback_vec_deserialization_AnyCallback(self) ==
    LET as == SelectSeq(self.args, LAMBDA arg : ~IsRegular(arg))
    IN Returned([ k \in DOMAIN as |-> VecBlock(as[k]) ])

\* Each vector starts after the results the scalar arguments read.
callback_vec_deserialization_Partitioned(self) ==
    LET as == SelectSeq(self.args, IsCallbackArgVec)
        n  == Len(SelectSeq(self.args, IsCallbackArg))
    IN Returned([ k \in DOMAIN as |-> [VecBlock(as[k]) EXCEPT !.from = n] ])

callback_vec_deserialization(self) ==
    LET as == SelectSeq(self.args, IsCallbackArgVec)
    IN Returned([ k \in DOMAIN as |-> VecBlock(as[k]) ])

(***************************************************************************)
(* The host and the decoders the generated code calls                      *)
(***************************************************************************)
\* The bytes a sub-call returned: a value in one of the two encodings.
Bytes(enc, val) == [enc |-> enc, val |-> val]

\* A promise result is Successful(bytes) or anything else (`_`).
Successful(bytes) == [status |-> "Successful", bytes |-> bytes]

Failed == [status |-> "Failed", bytes |-> Bytes("none", 0)]

\* The value sub-call j (0-based) returned.
PayloadOf(j) == 10 * (j + 1) + j

\* The results sub-call j can have ended with.
ResultsAt(j) ==
    { Successful(Bytes(enc, PayloadOf(j))) : enc \in SerializerType } \cup { Failed }

RECURSIVE ResultTables(_)
ResultTables(n) ==
    IF n = 0
    THEN { <<>> }
    ELSE { Append(t, r) : t \in ResultTables(n - 1), r \in ResultsAt(n - 1) }

\* near_bindgen::env::promise_results_count()
promise_results_count(table) == Len(table)

\* near_bindgen::env::promise_result(i); the host has no result outside
\* the table.
promise_result(table, i) ==
    IF i < Len(table) THEN table[i + 1] ELSE [status |-> "InvalidIndex", bytes |-> Bytes("none", 0)]

\* serde_json::from_slice / borsh try_from_slice: Ok(value) when the bytes
\* are in the decoder's own encoding, Err otherwise.
Decode(invocation, bytes) ==
    IF (invocation = "serde_json::from_slice" /\ bytes.enc = "JSON")
       \/ (invocation = "borsh::Deserialize::try_from_slice" /\ bytes.enc = "Borsh")
    THEN [ok |-> TRUE, val |-> bytes.val]
    ELSE [ok |-> FALSE, val |-> 0]

(***************************************************************************)
(* State machine: generation                                               *)
(***************************************************************************)
NoData == Bytes("none", 0)

NoRange == [to |-> 0, i |-> 0]

NoPanic == [message |-> "", args |-> <<>>]

InitGen ==
    /\ input_struct_out = NotCalled
    /\ decomposition_pattern_out = NotCalled
    /\ arg_list_out = NotCalled
    /\ callback_out = NotCalled
    /\ callback_vec_out = NotCalled

InitRunIdle ==
    /\ pc = "idle"
    /\ prog = <<>>
    /\ env = <<>>
    /\ fetched = <<>>
    /\ counted = 0
    /\ data = NoData
    /\ range = NoRange
    /\ acc = <<>>
    /\ panic = NoPanic

\* Generation: any signature, no contract call.
Init ==
    /\ sig \in AttrSigInfo(MaxArgs, ArgShapes) \cup ExampleSignatures
    /\ results = <<>>
    /\ InitGen
    /\ InitRunIdle

InputStruct ==
    /\ pc = "idle"
    /\ input_struct_out' = input_struct(sig)
    /\ UNCHANGED <<sig, decomposition_pattern_out, arg_list_out, callback_out,
                   callback_vec_out, runVars>>

DecompositionPattern ==
    /\ pc = "idle"
    /\ decomposition_pattern_out' = decomposition_pattern(sig)
    /\ UNCHANGED <<sig, input_struct_out, arg_list_out, callback_out,
                   callback_vec_out, runVars>>

ArgList ==
    /\ pc = "idle"
    /\ arg_list_out' = arg_list(sig)
    /\ UNCHANGED <<sig, input_struct_out, decomposition_pattern_out, callback_out,
                   callback_vec_out, runVars>>

CallbackDeserialization ==
    /\ pc = "idle"
    /\ callback_out' = callback_deserialization(sig)
    /\ UNCHANGED <<sig, input_struct_out, decomposition_pattern_out, arg_list_out,
                   callback_vec_out, runVars>>

CallbackVecDeserialization ==
    /\ pc = "idle"
    /\ callback_vec_out' = callback_vec_deserialization(sig)
    /\ UNCHANGED <<sig, input_struct_out, decomposition_pattern_out, arg_list_out,
                   callback_out, runVars>>

Next ==
    \/ InputStruct
    \/ DecompositionPattern
    \/ ArgList
    \/ CallbackDeserialization
    \/ CallbackVecDeserialization

Spec == Init /\ [][Next]_vars

(***************************************************************************)
(* State machine: the generated callback code at run time                  *)
(***************************************************************************)
\* The signatures whose callback code is run: every kind and serializer;
\* the reference form plays no part in fetching and decoding.
RunShapes ==
    { [form |-> Value, bty |-> b, ser |-> s] :
        b \in BindgenArgType, s \in SerializerType }

RunSignatures ==
    { s \in AttrSigInfo(MaxRunArgs, RunShapes) : s.input_serializer = "JSON" }
    \cup { ExampleTwoVectors }

InitRun ==
    /\ sig \in RunSignatures
    /\ results \in UNION { ResultTables(n) : n \in 0..MaxResults }
    /\ InitGen
    /\ InitRunIdle

Binding(b, value) ==
    [ident |-> b.ident, mutability |-> b.mutability, ty |-> b.ty, value |-> value]

\* The wrapper runs both callback fragments in one function body; which of
\* the two it splices first is the assembler's choice.
StartCall ==
    /\ pc = "idle"
    /\ callback_out.status = "returned"
    /\ callback_vec_out.status = "returned"
    /\ \E scalars_first \in BOOLEAN :
          prog' = IF scalars_first
                  THEN callback_out.tokens \o callback_vec_out.tokens
                  ELSE callback_vec_out.tokens \o callback_out.tokens
    /\ pc' = "block"
    /\ UNCHANGED <<sig, genVars, results, env, fetched, counted, data, range, acc, panic>>

\* let data: Vec<u8> = match promise_result(#idx) { Successful(x) => x,
\*                                                  _ => panic!(.., #idx) };
ReadData ==
    /\ pc = "block"
    /\ prog # <<>>
    /\ Head(prog).block = "scalar"
    /\ LET b == Head(prog)
           r == promise_result(results, b.fetch)
       IN /\ fetched' = Append(fetched, [by |-> b.ident, idx |-> b.fetch])
          /\ IF r.status = "Successful"
             THEN /\ data' = r.bytes
                  /\ pc' = "decode"
                  /\ panic' = panic
             ELSE /\ data' = data
                  /\ pc' = "aborted"
                  /\ panic' = IF r.status = "InvalidIndex"
                              THEN [message |-> "host: invalid promise result index", args |-> <<>>]
                              ELSE [message |-> NotSuccessfulMessage, args |-> <<b.named>>]
    /\ UNCHANGED <<sig, genVars, results, prog, env, counted, range, acc>>

\* let #mutability #ident: #ty = #invocation;
LetScalar ==
    /\ pc = "decode"
    /\ LET b == Head(prog)
           d == Decode(b.invocation, data)
       IN IF d.ok
          THEN /\ env' = Append(env, Binding(b, d.val))
               /\ prog' = Tail(prog)
               /\ pc' = "block"
               /\ panic' = panic
          ELSE /\ env' = env
               /\ prog' = prog
               /\ pc' = "aborted"
               /\ panic' = [message |-> b.expect, args |-> <<>>]
    /\ UNCHANGED <<sig, genVars, results, fetched, counted, data, range, acc>>

\* (0..near_bindgen::env::promise_results_count())
RangeStart ==
    /\ pc = "block"
    /\ prog # <<>>
    /\ Head(prog).block = "vec"
    /\ counted' = counted + 1
    /\ range' = [to |-> promise_results_count(results), i |-> Head(prog).from]
    /\ acc' = <<>>
    /\ pc' = "map"
    /\ UNCHANGED <<sig, genVars, results, prog, env, fetched, data, panic>>

\* A result that is not successful is skipped (filter_map) instead of ending
\* the call.
MapFetch_SkipFailed ==
    /\ pc = "map"
    /\ range.i < range.to
    /\ LET b == Head(prog)
           r == promise_result(results, range.i)
       IN /\ fetched' = Append(fetched, [by |-> b.ident, idx |-> range.i])
          /\ IF r.status = "Successful"
             THEN /\ data' = r.bytes
                  /\ pc' = "map_decode"
                  /\ range' = range
             ELSE /\ data' = data
                  /\ pc' = "map"
                  /\ range' = [range EXCEPT !.i = range.i + 1]
    /\ UNCHANGED <<sig, genVars, results, prog, env, counted, acc, panic>>

\* .map(|i| { let data: Vec<u8> = match promise_result(i) { Successful(x) => x,
\*                                                           _ => panic!(.., i) };
MapFetch ==
    /\ pc = "map"
    /\ range.i < range.to
    /\ LET b == Head(prog)
           r == promise_result(results, range.i)
       IN /\ fetched' = Append(fetched, [by |-> b.ident, idx |-> range.i])
          /\ IF r.status = "Successful"
             THEN /\ data' = r.bytes
                  /\ pc' = "map_decode"
                  /\ panic' = panic
             ELSE /\ data' = data
                  /\ pc' = "aborted"
                  /\ panic' = IF r.status = "InvalidIndex"
                              THEN [message |-> "host: invalid promise result index", args |-> <<>>]
                              ELSE [message |-> NotSuccessfulMessage, args |-> <<range.i>>]
    /\ UNCHANGED <<sig, genVars, results, prog, env, counted, range, acc>>

\*           #invocation })
MapDecode ==
    /\ pc = "map_decode"
    /\ LET b == Head(prog)
           d == Decode(b.invocation, data)
       IN IF d.ok
          THEN /\ acc' = Append(acc, d.val)
               /\ range' = [range EXCEPT !.i = range.i + 1]
               /\ pc' = "map"
               /\ panic' = panic
          ELSE /\ acc' = acc
               /\ range' = range
               /\ pc' = "aborted"
               /\ panic' = [message |-> b.expect, args |-> <<>>]
    /\ UNCHANGED <<sig, genVars, results, prog, env, fetched, counted, data>>

\* let #mutability #ident: #ty = ( ... ).collect();
Collect ==
    /\ pc = "map"
    /\ range.i >= range.to
    /\ env' = Append(env, Binding(Head(prog), acc))
    /\ prog' = Tail(prog)
    /\ acc' = <<>>
    /\ pc' = "block"
    /\ UNCHANGED <<sig, genVars, results, fetched, counted, data, range, panic>>

\* The end of both fragments: every callback argument is bound.
Return ==
    /\ pc = "block"
    /\ prog = <<>>
    /\ pc' = "done"
    /\ UNCHANGED <<sig, genVars, results, prog, env, fetched, counted, data, range, acc, panic>>

NextRun ==
    \/ CallbackDeserialization
    \/ CallbackVecDeserialization
    \/ StartCall
    \/ ReadData
    \/ LetScalar
    \/ RangeStart
    \/ MapFetch
    \/ MapDecode
    \/ Collect
    \/ Return

SpecRun == InitRun /\ [][NextRun]_vars

(***************************************************************************)
(* Reading fragments back                                                  *)
(***************************************************************************)
\* The comma-terminated items of a token stream, each without its comma.
RECURSIVE Split(_, _)
Split(ts, cur) ==
    IF ts = <<>>
    THEN IF cur = <<>> THEN <<>> ELSE <<cur>>
    ELSE IF Head(ts) = ","
         THEN <<cur>> \o Split(Tail(ts), <<>>)
         ELSE Split(Tail(ts), Append(cur, Head(ts)))

ItemsOf(ts) == Split(ts, <<>>)

\* The tokens between `struct Input {` and `}` after the attribute.
StructBody(ts) == SubSeq(ts, 5, Len(ts) - 1)

\* The tokens between `Input {` and `}`.
PatternBody(ts) == SubSeq(ts, 3, Len(ts) - 1)

LastOf(item) == item[Len(item)]

Positions == DOMAIN sig.args

\* Number of arguments of the kind before position p, and in all.
Rank(kind, p) == Cardinality({ q \in 1..(p - 1) : sig.args[q].bindgen_ty = kind })

Count(kind) == Cardinality({ q \in Positions : sig.args[q].bindgen_ty = kind })

\* The reference form of an argument, in the words of the specification.
FormOf(arg) ==
    IF ~arg.reference THEN "value"
    ELSE IF arg.mutability THEN "mutably_borrowed" ELSE "borrowed"

RangeOf(seq) == { seq[k] : k \in DOMAIN seq }

(***************************************************************************)
(* C1: callback_deserialization gives each CallbackArg argument the fetch  *)
(* index equal to its 0-based rank among the CallbackArg arguments only,   *)
(* whatever Regular or CallbackArgVec arguments precede it, and emits the  *)
(* blocks in the order of that subsequence.                                *)
(***************************************************************************)
C1_FetchIndexIsRankAmongScalars ==
    callback_out.status # "not_called" =>
        /\ callback_out.status = "returned"
        /\ Len(callback_out.tokens) = Count("CallbackArg")
        /\ \A p \in Positions :
              sig.args[p].bindgen_ty = "CallbackArg" =>
                  LET r == Rank("CallbackArg", p)
                      b == callback_out.tokens[r + 1]
                  IN /\ b.block = "scalar"
                     /\ b.ident = sig.args[p].ident
                     /\ b.fetch = r
                     /\ b.named = r

\* [Regular a, CallbackScalar b, Regular c, CallbackScalar d]: b reads host
\* result 0 and d reads host result 1.
C1_Witness ==
    /\ sig = ExampleInterleaved
    /\ callback_out.status = "returned"
    /\ Len(callback_out.tokens) = 2
    /\ callback_out.tokens[1].ident = "b" /\ callback_out.tokens[1].fetch = 0
    /\ callback_out.tokens[2].ident = "d" /\ callback_out.tokens[2].fetch = 1

(***************************************************************************)
(* C2: arg_list emits exactly one call-site expression per argument, in    *)
(* declaration order, whatever the binding kinds; the empty argument list  *)
(* gives the empty output; arg_list never fails.                           *)
(***************************************************************************)
C2_ArgListHasEveryArgumentInOrder ==
    arg_list_out.status # "not_called" =>
        /\ arg_list_out.status = "returned"
        /\ Len(ItemsOf(arg_list_out.tokens)) = Len(sig.args)
        /\ \A p \in Positions :
              LastOf(ItemsOf(arg_list_out.tokens)[p]) = sig.args[p].ident
        /\ (sig.args = <<>> => arg_list_out.tokens = <<>>)

C2_Witness ==
    /\ arg_list_out.status = "returned"
    /\ { sig.args[p].bindgen_ty : p \in Positions } = BindgenArgType
    /\ Len(ItemsOf(arg_list_out.tokens)) = 4

(***************************************************************************)
(* C3: with at least one Regular argument, input_struct and                *)
(* decomposition_pattern both return; the struct's fields and the          *)
(* pattern's bindings are the Regular arguments in declaration order and   *)
(* no others: field k is `ident: ty` of the k-th Regular argument, and     *)
(* binding k is its identifier, preceded by `mut` if and only if the       *)
(* argument's mutability is set.                                           *)
(***************************************************************************)
C3_FieldsAndBindingsAreTheRegularArguments ==
    (/\ Count("Regular") > 0
     /\ input_struct_out.status # "not_called"
     /\ decomposition_pattern_out.status # "not_called") =>
        /\ input_struct_out.status = "returned"
        /\ decomposition_pattern_out.status = "returned"
        /\ LET fields == ItemsOf(StructBody(input_struct_out.tokens))
               binds  == ItemsOf(PatternBody(decomposition_pattern_out.tokens))
           IN /\ Len(fields) = Count("Regular")
              /\ Len(binds) = Count("Regular")
              /\ \A p \in Positions :
                    sig.args[p].bindgen_ty = "Regular" =>
                        LET k == Rank("Regular", p) + 1
                        IN /\ fields[k] = <<sig.args[p].ident, ":", sig.args[p].ty>>
                           /\ binds[k] = IF sig.args[p].mutability
                                         THEN <<"mut", sig.args[p].ident>>
                                         ELSE <<sig.args[p].ident>>
              /\ \A k \in 1..Count("Regular") : fields[k][1] = LastOf(binds[k])

C3_Witness ==
    /\ input_struct_out.status = "returned"
    /\ decomposition_pattern_out.status = "returned"
    /\ \E p \in Positions : sig.args[p].bindgen_ty = "Regular" /\ sig.args[p].mutability
    /\ \E p \in Positions : sig.args[p].bindgen_ty = "Regular" /\ ~sig.args[p].mutability
    /\ \E p \in Positions : sig.args[p].bindgen_ty # "Regular"
    /\ ItemsOf(PatternBody(decomposition_pattern_out.tokens)) = << <<"mut", "a">>, <<"d">> >>

(***************************************************************************)
(* C4: with no Regular argument (the empty signature, or callback          *)
(* arguments only) input_struct and decomposition_pattern panic on their   *)
(* assert! and return no fragment, while arg_list,                         *)
(* callback_deserialization and callback_vec_deserialization return.       *)
(***************************************************************************)
C4_NoRegularArgumentPanics ==
    Count("Regular") = 0 =>
        /\ input_struct_out.status # "not_called" =>
              /\ input_struct_out.status = "panicked"
              /\ input_struct_out.tokens = <<>>
              /\ input_struct_out.message # ""
        /\ decomposition_pattern_out.status # "not_called" =>
              /\ decomposition_pattern_out.status = "panicked"
              /\ decomposition_pattern_out.tokens = <<>>
              /\ decomposition_pattern_out.message # ""
        /\ arg_list_out.status \in {"not_called", "returned"}
        /\ callback_out.status \in {"not_called", "returned"}
        /\ callback_vec_out.status \in {"not_called", "returned"}

C4_Witness ==
    /\ Count("Regular") = 0
    /\ Count("CallbackArg") > 0
    /\ Count("CallbackArgVec") > 0
    /\ input_struct_out.status = "panicked"
    /\ decomposition_pattern_out.status = "panicked"
    /\ arg_list_out.status = "returned" /\ Len(ItemsOf(arg_list_out.tokens)) = 2
    /\ callback_out.status = "returned" /\ Len(callback_out.tokens) = 1
    /\ callback_vec_out.status = "returned" /\ Len(callback_vec_out.tokens) = 1

\* The signature with the mutability of argument p set to m.
WithMutability(self, p, m) == [self EXCEPT !.args[p].mutability = m]

\* The argument still has one of the three reference forms.
WellFormed(self) ==
    \A p \in DOMAIN self.args :
        [reference |-> self.args[p].reference, mutability |-> self.args[p].mutability]
            \in ReferenceForms

ExpressionOfForm(arg) ==
    CASE FormOf(arg) = "value"            -> <<arg.ident>>
      [] FormOf(arg) = "borrowed"         -> <<"&", arg.ident>>
      [] FormOf(arg) = "mutably_borrowed" -> <<"&", "mut", arg.ident>>

(***************************************************************************)
(* C5 as stated: the call-site expression of an argument is decided by its *)
(* identifier and reference form alone (value: the identifier; borrowed:   *)
(* & and the identifier; mutably borrowed: & mut and the identifier), and  *)
(* setting or clearing an argument's mutability leaves the output of       *)
(* arg_list as it was.                                                     *)
(***************************************************************************)
C5_MutabilityDoesNotChangeArgList ==
    arg_list_out.status = "returned" =>
        /\ Len(ItemsOf(arg_list_out.tokens)) = Len(sig.args)
        /\ \A p \in Positions :
              ItemsOf(arg_list_out.tokens)[p] = ExpressionOfForm(sig.args[p])
        /\ \A p \in Positions : \A m \in BOOLEAN :
              WellFormed(WithMutability(sig, p, m)) =>
                  arg_list(WithMutability(sig, p, m)).tokens = arg_list_out.tokens

(***************************************************************************)
(* C5 as amended: the call-site expression of an argument is its reference *)
(* token, its mutability token and its identifier, in that order (value:   *)
(* the identifier; borrowed: & and the identifier; mutably borrowed: & mut *)
(* and the identifier), whatever its kind, type and serializer; the `mut`  *)
(* is the argument's mutability itself, so setting or clearing the         *)
(* mutability of a reference argument changes the output of arg_list.      *)
(***************************************************************************)
C5_ExpressionIsReferenceMutabilityIdent ==
    arg_list_out.status = "returned" =>
        /\ Len(ItemsOf(arg_list_out.tokens)) = Len(sig.args)
        /\ \A p \in Positions :
              LET arg  == sig.args[p]
                  item == ItemsOf(arg_list_out.tokens)[p]
              IN /\ item = ExpressionOfForm(arg)
                 /\ ("mut" \in RangeOf(item)) = arg.mutability
                 /\ ("&" \in RangeOf(item)) = arg.reference
                 /\ arg.reference =>
                       arg_list(WithMutability(sig, p, ~arg.mutability)).tokens
                           # arg_list_out.tokens

C5_Witness ==
    /\ arg_list_out.status = "returned"
    /\ ItemsOf(arg_list_out.tokens) = << <<"&", "a">>, <<"&", "mut", "b">> >>

DecoderOf(serializer_ty) ==
    CASE serializer_ty = "JSON"  -> "serde_json::from_slice"
      [] serializer_ty = "Borsh" -> "borsh::Deserialize::try_from_slice"

(***************************************************************************)
(* C8: the decode call of every CallbackArg and CallbackArgVec block is    *)
(* the one of that argument's own serializer_ty (JSON: serde_json, Borsh:  *)
(* borsh), whatever input_serializer and the other arguments' serializers  *)
(* are; the derive attribute of the input struct is the one of             *)
(* input_serializer, whatever the arguments' serializers are.              *)
(***************************************************************************)
C8_DecodeFormatIsTheArgumentsOwn ==
    /\ callback_out.status = "returned" =>
          /\ Len(callback_out.tokens) = Count("CallbackArg")
          /\ \A p \in Positions :
                sig.args[p].bindgen_ty = "CallbackArg" =>
                    callback_out.tokens[Rank("CallbackArg", p) + 1].invocation
                        = DecoderOf(sig.args[p].serializer_ty)
    /\ callback_vec_out.status = "returned" =>
          /\ Len(callback_vec_out.tokens) = Count("CallbackArgVec")
          /\ \A p \in Positions :
                sig.args[p].bindgen_ty = "CallbackArgVec" =>
                    callback_vec_out.tokens[Rank("CallbackArgVec", p) + 1].invocation
                        = DecoderOf(sig.args[p].serializer_ty)
    /\ input_struct_out.status = "returned" =>
          input_struct_out.tokens[1] =
              CASE sig.input_serializer = "JSON"  -> "#[derive(serde::Deserialize)]"
                [] sig.input_serializer = "Borsh" -> "#[derive(borsh::BorshDeserialize)]"

\* A Borsh scalar and a JSON vector argument under a Borsh input struct.
C8_Witness ==
    /\ sig = ExampleMixed
    /\ callback_out.status = "returned"
    /\ callback_vec_out.status = "returned"
    /\ input_struct_out.status = "returned"
    /\ callback_out.tokens[1].invocation = "borsh::Deserialize::try_from_slice"
    /\ callback_vec_out.tokens[1].invocation = "serde_json::from_slice"
    /\ input_struct_out.tokens[1] = "#[derive(borsh::BorshDeserialize)]"

BoundByPattern ==
    LET binds == ItemsOf(PatternBody(decomposition_pattern_out.tokens))
    IN IF decomposition_pattern_out.status = "returned"
       THEN [ k \in DOMAIN binds |-> LastOf(binds[k]) ]
       ELSE <<>>

BoundByBlocks(out) == [ k \in DOMAIN out.tokens |-> out.tokens[k].ident ]

PassedByArgList ==
    LET items == ItemsOf(arg_list_out.tokens)
    IN [ k \in DOMAIN items |-> LastOf(items[k]) ]

NoRepeat(seq) == Cardinality(RangeOf(seq)) = Len(seq)

IdentsOfKind(kind) == { sig.args[p].ident : p \in { q \in Positions : sig.args[q].bindgen_ty = kind } }

ArgNamed(ident) == sig.args[CHOOSE p \in Positions : sig.args[p].ident = ident]

\* The indices the block of the argument passed to promise_result, in order.
IndicesFetchedBy(ident) ==
    LET calls == SelectSeq(fetched, LAMBDA e : e.by = ident)
    IN [ k \in DOMAIN calls |-> calls[k].idx ]

\* 0, 1, ..., n-1
Ascending(n) == [ j \in 1..n |-> j - 1 ]

IsBound(ident) == \E k \in DOMAIN env : env[k].ident = ident

ValueOf(ident) == env[CHOOSE k \in DOMAIN env : env[k].ident = ident].value

(***************************************************************************)
(* C6: the block of a CallbackArgVec argument takes the number of results  *)
(* from promise_results_count() when it runs, fetches the results 0, 1,    *)
(* ..., count-1 in ascending order, each once, and, when every one is      *)
(* successful and decodes, binds the argument to a sequence of length      *)
(* count whose j-th element is result j decoded with the argument's own    *)
(* serializer; this for every count, 0 included.                           *)
(***************************************************************************)
C6_VectorFetchesEveryResultInOrder ==
    /\ \A k \in DOMAIN env :
          ArgNamed(env[k].ident).bindgen_ty = "CallbackArgVec" =>
              /\ Len(env[k].value) = Len(results)
              /\ IndicesFetchedBy(env[k].ident) = Ascending(Len(results))
              /\ \A j \in 1..Len(results) :
                    /\ results[j].status = "Successful"
                    /\ results[j].bytes.enc = ArgNamed(env[k].ident).serializer_ty
                    /\ env[k].value[j] = results[j].bytes.val
    /\ pc \in {"map", "map_decode"} =>
          /\ range.to = Len(results)
          /\ Len(acc) = range.i
          /\ range.i <= range.to
          /\ IndicesFetchedBy(Head(prog).ident)
                = Ascending(IF pc = "map_decode" THEN range.i + 1 ELSE range.i)
          /\ \A j \in 1..Len(acc) : acc[j] = results[j].bytes.val
    /\ pc = "done" => counted = Count("CallbackArgVec")

\* A vector argument bound to all of three results, fetched as 0, 1, 2.
C6_Witness ==
    /\ pc = "done"
    /\ Len(results) = 3
    /\ \E k \in DOMAIN env :
          /\ ArgNamed(env[k].ident).bindgen_ty = "CallbackArgVec"
          /\ env[k].value = <<PayloadOf(0), PayloadOf(1), PayloadOf(2)>>
          /\ IndicesFetchedBy(env[k].ident) = <<0, 1, 2>>

(***************************************************************************)
(* C7: a fetched result that is not successful ends the call at once with  *)
(* the panic that names the fetched index, and a successful result that    *)
(* does not decode ends it with the decoder's panic; after the panic no    *)
(* step is taken: no further result is fetched, and neither the argument   *)
(* being deserialized (a vector's partial sequence included) nor any later *)
(* callback argument is bound.                                             *)
(***************************************************************************)
C7_UnsuccessfulResultAbortsTheCall ==
    /\ \A q \in DOMAIN fetched :
          fetched[q].idx < Len(results) =>
              LET i == fetched[q].idx
                  r == results[i + 1]
              IN /\ r.status # "Successful" =>
                       /\ q = Len(fetched)
                       /\ pc = "aborted"
                       /\ panic = [message |-> "Callback computation {} was not successful",
                                   args |-> <<i>>]
                 /\ (r.status = "Successful"
                     /\ r.bytes.enc # ArgNamed(fetched[q].by).serializer_ty) =>
                       /\ q = Len(fetched)
                       /\ pc \in {"decode", "map_decode", "aborted"}
                       /\ pc = "aborted" =>
                             panic = [message |-> "Failed to deserialize callback using JSON",
                                      args |-> <<>>]
    /\ pc = "aborted" =>
          /\ panic # NoPanic
          /\ ~ENABLED NextRun
          /\ prog # <<>>
          /\ \A k \in DOMAIN prog : ~IsBound(prog[k].ident)
    /\ pc # "aborted" => panic = NoPanic

\* One argument is bound; the vector block after it has decoded result 0
\* and fetched the failed result 1; another block is still to come.
C7_Witness ==
    /\ pc = "aborted"
    /\ panic = [message |-> NotSuccessfulMessage, args |-> <<1>>]
    /\ Len(env) = 1
    /\ Len(prog) = 2
    /\ Head(prog).block = "vec"
    /\ acc = <<PayloadOf(0)>>
    /\ Len(results) = 3

(***************************************************************************)
(* C9: results are not divided between the callback arguments.  When the   *)
(* call completes, the scalar argument of rank r has read result r, and    *)
(* every vector argument has read every result from index 0 (not from the  *)
(* number of scalar arguments) and is bound to all of them, so the results *)
(* the scalar arguments read are read again by every vector argument.      *)
(***************************************************************************)
C9_VectorsReadTheResultsTheScalarsRead ==
    pc = "done" =>
        \A p \in Positions :
            LET arg == sig.args[p] IN
            /\ arg.bindgen_ty = "CallbackArg" =>
                  /\ IndicesFetchedBy(arg.ident) = <<Rank("CallbackArg", p)>>
                  /\ IsBound(arg.ident)
                  /\ ValueOf(arg.ident) = results[Rank("CallbackArg", p) + 1].bytes.val
            /\ arg.bindgen_ty = "CallbackArgVec" =>
                  /\ IsBound(arg.ident)
                  /\ Len(ValueOf(arg.ident)) = Len(results)
                  /\ Len(results) > 0 =>
                        /\ Head(IndicesFetchedBy(arg.ident)) = 0
                        /\ Head(ValueOf(arg.ident)) = results[1].bytes.val
                  /\ \A q \in Positions :
                        sig.args[q].bindgen_ty = "CallbackArg" =>
                            Rank("CallbackArg", q) \in RangeOf(IndicesFetchedBy(arg.ident))

\* One scalar and two vector arguments over two results: result 0 is read
\* three times, result 1 twice.
C9_Witness ==
    /\ pc = "done"
    /\ sig = ExampleTwoVectors
    /\ Len(results) = 2
    /\ [ k \in DOMAIN fetched |-> fetched[k].idx ] = <<0, 0, 1, 0, 1>>
    /\ ValueOf("a") = PayloadOf(0)
    /\ ValueOf("b") = <<PayloadOf(0), PayloadOf(1)>>
    /\ ValueOf("c") = <<PayloadOf(0), PayloadOf(1)>>

====
